---- MODULE Spec2Model ----
(***************************************************************************)
(* Ollama Python client: the conversation history store of                 *)
(* Ollama.chat / Ollama.achat (src/client.py), the NDJSON streaming        *)
(* decoders StreamProcessor / AsyncStreamProcessor (src/streaming.py),     *)
(* the request core Ollama._request / Ollama._async_request and the        *)
(* operations built on it, the response mappings of src/models.py and the  *)
(* Modelfile writer and parser of src/modelfile.py.                        *)
(***************************************************************************)
EXTENDS Integers, Sequences, FiniteSets, TLC

(* ------------------------------------------------------------------ *)
(* Bounds of the model                                                  *)
(* ------------------------------------------------------------------ *)
\* lines of a response body a decoder scenario iterates over
MaxLines == 3
\* message-list objects the caller creates
MaxLists == 2
\* memory addresses a list object can be allocated at (the values of id())
MaxAddrs == 2
\* message dicts ever allocated (the caller's and the client's)
MaxDicts == 4
\* chat / achat calls in flight at once
MaxCalls == 2
\* lines a streamed chat response delivers
MaxFrames == 3
\* chat, achat and clear calls in one run
MaxOps == 2
\* streamed chat calls in one run
MaxStreams == 1
\* user messages the caller writes in one run
MaxUserMsgs == 2
\* times the consumer starts iterating over one returned sequence
MaxPasses == 2
\* lines of a text value of a Modelfile
MaxValueLines == 2

(* ------------------------------------------------------------------ *)
(* JSON texts and json.loads                                            *)
(* ------------------------------------------------------------------ *)
\* A decoded JSON object, flattened: every key the client reads, "absent"
\* when the key is not in the object.
JsonObj(a, msg, role, content, done) ==
    [a |-> a, message |-> msg, role |-> role, content |-> content, done |-> done,
     error |-> "absent"]

EmptyObj == JsonObj("absent", "absent", "absent", "absent", "absent")

\* Line texts of the decoder scenarios.
TxtA1 == "{\"a\":1}"
TxtA1Spaced == "{ \"a\" : 1 }"
TxtA2 == "{\"a\":2}"
TxtBad == "XX"
TxtCut == "{\"a\":"
TxtEmpty == ""

\* Line / body texts of the chat endpoint.
TxtHe == "{\"message\":{\"role\":\"assistant\",\"content\":\"He\"},\"done\":false}"
TxtY == "{\"message\":{\"role\":\"assistant\",\"content\":\"y\"}}"
TxtEnd == "{\"message\":{\"role\":\"assistant\",\"content\":\"\"},\"done\":true}"
TxtEndOk == "{\"message\":{\"role\":\"assistant\",\"content\":\"ok\"},\"done\":true}"
TxtDoneOnly == "{\"done\":true}"
TxtBraces == "{}"

\* Body texts of an error response.
TxtErr == "{\"error\":\"model is busy\"}"
TxtErrList == "[\"error\"]"

\* json.loads succeeds on the text.
IsJson(text) ==
    text \in {TxtA1, TxtA1Spaced, TxtA2, TxtHe, TxtY, TxtEnd, TxtEndOk,
              TxtDoneOnly, TxtBraces, TxtErr, TxtErrList}

\* json.loads(text), for a text on which it succeeds.
JsonLoads(text) ==
    CASE text = TxtA1 -> JsonObj("1", "absent", "absent", "absent", "absent")
      [] text = TxtA1Spaced -> JsonObj("1", "absent", "absent", "absent", "absent")
      [] text = TxtA2 -> JsonObj("2", "absent", "absent", "absent", "absent")
      [] text = TxtHe -> JsonObj("absent", "obj", "assistant", "He", "false")
      [] text = TxtY -> JsonObj("absent", "obj", "assistant", "y", "absent")
      [] text = TxtEnd -> JsonObj("absent", "obj", "assistant", "", "true")
      [] text = TxtEndOk -> JsonObj("absent", "obj", "assistant", "ok", "true")
      [] text = TxtDoneOnly -> JsonObj("absent", "absent", "absent", "absent", "true")
      [] text = TxtErr -> [EmptyObj EXCEPT !.error = "model is busy"]
      [] OTHER -> EmptyObj

(* ------------------------------------------------------------------ *)
(* State                                                                *)
(* ------------------------------------------------------------------ *)
VARIABLES
    body,       \* the lines of the response a decoder iterates over
    sp,         \* the generator of StreamProcessor.__iter__
    asp,        \* the async generator of AsyncStreamProcessor.__aiter__
    lists,      \* the caller's message-list objects: state, address, items
    dicts,      \* the heap of message dicts; a dict's index is its identity
    conv,       \* Ollama._conversations: conv_id -> list of message dicts
    calls,      \* the chat / achat calls in flight and their generators
    busy,       \* the blocking call running on the caller's thread, or 0
    accum,      \* history: per key, the dicts chat calls appended since its clear
                \* and the list object the entry was created for
    op,         \* history: the operation the last step performed
    nops,       \* history: the client operations started so far
    handler,    \* StreamProcessor._global_handler: the registered observer
    rq,         \* history: the last operation of the request layer, with its
                \* response and its outcome
    co,         \* the cooperative call in progress: its position, the
                \* httpx.AsyncClient scopes it holds open, how it ended
    dec,        \* history: the last from_dict call, its argument and outcome
    mf          \* a Modelfile object, its text and the object parsed back

vars == <<body, sp, asp, lists, dicts, conv, calls, busy, accum, op, nops, handler, rq, co, dec, mf>>
streamVars == <<body, sp, asp, handler>>
reqVars == <<rq, co, dec, mf>>
chatVars == <<lists, dicts, conv, calls, busy, accum, op, nops>>

StreamLines == {TxtEmpty, TxtBad, TxtCut, TxtA1, TxtA1Spaced, TxtA2}

SeqsUpTo(S, n) == UNION {[1..k -> S] : k \in 0..n}

\* The operations that return a sequence with stream=True.
StreamOps == {"generate", "chat", "create", "pull", "push"}

\* StreamProcessor._global_handler: None, an observer that returns, an
\* observer that raises.
Handlers == {"none", "recorder", "raiser"}

\* A generator over the lines of the body: the lines read, the objects
\* yielded, its state, the observer calls and the yields in the order they
\* happened, the error it raised, the operation that returned the sequence
\* and the times the consumer started to iterate over the sequence.
NewGen ==
    [pos |-> 0, out |-> <<>>, st |-> "new", log |-> <<>>, err |-> "",
     from |-> "pull", pass |-> 1]

(* ------------------------------------------------------------------ *)
(* StreamProcessor.__iter__ / AsyncStreamProcessor.__aiter__            *)
(* ------------------------------------------------------------------ *)
\* The loop body on one line: an empty line is skipped (if not line:
\* continue), a line json.loads rejects is skipped (except JSONDecodeError:
\* continue), any other line is decoded and yielded.
SpLineYields(line) == line # "" /\ IsJson(line)

\* The same loop body of the cooperative decoder.
AspLineYields(line) == line # "" /\ IsJson(line)

\* The blocking loop with the malformed line ending the sequence instead of
\* being skipped (a `break` where line 54 has `continue`).
RECURSIVE StreamProcessorIterBreaks(_, _)
StreamProcessorIterBreaks(lines, pos) ==
    IF pos >= Len(lines)
    THEN [pos |-> Len(lines), yielded |-> FALSE, data |-> EmptyObj]
    ELSE IF lines[pos + 1] = ""
         THEN StreamProcessorIterBreaks(lines, pos + 1)
         ELSE IF IsJson(lines[pos + 1])
              THEN [pos |-> pos + 1, yielded |-> TRUE, data |-> JsonLoads(lines[pos + 1])]
              ELSE [pos |-> Len(lines), yielded |-> FALSE, data |-> EmptyObj]

\* One advance of the blocking generator from line `pos`: the loop reads
\* lines until one is yielded or iter_lines() is exhausted.
RECURSIVE StreamProcessorIter(_, _)
StreamProcessorIter(lines, pos) ==
    IF pos >= Len(lines)
    THEN [pos |-> Len(lines), yielded |-> FALSE, data |-> EmptyObj]
    ELSE IF SpLineYields(lines[pos + 1])
         THEN [pos |-> pos + 1, yielded |-> TRUE, data |-> JsonLoads(lines[pos + 1])]
         ELSE StreamProcessorIter(lines, pos + 1)

\* The cooperative loop with the empty line ending the sequence instead of
\* being skipped (a `break` where line 92 has `continue`).
RECURSIVE AsyncStreamProcessorAiterBreaks(_, _)
AsyncStreamProcessorAiterBreaks(lines, pos) ==
    IF pos >= Len(lines)
    THEN [pos |-> Len(lines), yielded |-> FALSE, data |-> EmptyObj]
    ELSE IF lines[pos + 1] = ""
         THEN [pos |-> Len(lines), yielded |-> FALSE, data |-> EmptyObj]
         ELSE IF IsJson(lines[pos + 1])
              THEN [pos |-> pos + 1, yielded |-> TRUE, data |-> JsonLoads(lines[pos + 1])]
              ELSE AsyncStreamProcessorAiterBreaks(lines, pos + 1)

\* The same advance of the cooperative generator.
RECURSIVE AsyncStreamProcessorAiter(_, _)
AsyncStreamProcessorAiter(lines, pos) ==
    IF pos >= Len(lines)
    THEN [pos |-> Len(lines), yielded |-> FALSE, data |-> EmptyObj]
    ELSE IF AspLineYields(lines[pos + 1])
         THEN [pos |-> pos + 1, yielded |-> TRUE, data |-> JsonLoads(lines[pos + 1])]
         ELSE AsyncStreamProcessorAiter(lines, pos + 1)

\* The classes of exceptions.py and their bases.
Taxonomy ==
    {"OllamaError", "OllamaRequestError", "OllamaResponseError",
     "OllamaModelNotFoundError", "OllamaConnectionError"}

Base(kind) == IF kind = "OllamaError" THEN "Exception" ELSE "OllamaError"

\* issubclass(kind, of), for kind in the taxonomy.
IsA(kind, of) == kind = of \/ (kind \in Taxonomy /\ Base(kind) = of) \/ of = "Exception"

\* Lines 55-56 / 108-109: `raise OllamaError(...)` in a module that never
\* imports OllamaError (lines 5-8): evaluating the name raises NameError.
StreamFailure == "NameError"

\* The generator with the observer called after the yield, not before.
AdvanceYieldFirst(g, r) ==
    IF ~r.yielded
    THEN [g EXCEPT !.pos = r.pos, !.st = "finished"]
    ELSE [g EXCEPT !.pos = r.pos, !.st = "suspended",
                   !.out = Append(@, r.data),
                   !.log = IF handler = "none"
                           THEN Append(@, <<"yield", r.data>>)
                           ELSE @ \o <<(<<"yield", r.data>>), (<<"observer", r.data>>)>>]

\* The generator after the advance r: at a decoded line the observer, when
\* one is set, is called with the object (lines 45-49), then the object is
\* yielded (line 51); an observer that raises ends the generator with the
\* error of line 56.
Advance(g, r) ==
    IF ~r.yielded
    THEN [g EXCEPT !.pos = r.pos, !.st = "finished"]
    ELSE IF handler = "none"
    THEN [g EXCEPT !.pos = r.pos, !.st = "suspended",
                   !.out = Append(@, r.data),
                   !.log = Append(@, <<"yield", r.data>>)]
    ELSE IF handler = "recorder"
    THEN [g EXCEPT !.pos = r.pos, !.st = "suspended",
                   !.out = Append(@, r.data),
                   !.log = @ \o <<(<<"observer", r.data>>), (<<"yield", r.data>>)>>]
    ELSE [g EXCEPT !.pos = r.pos, !.st = "raised",
                   !.log = Append(@, <<"observer", r.data>>),
                   !.err = StreamFailure]

\* iter() on the object a blocking stream=True operation returned: pull and
\* push return the StreamProcessor itself (lines 956, 1026 of client.py),
\* whose __iter__ starts a new generator over the lines of the buffered
\* response; generate and create return a map object (387, 699) and chat a
\* generator (551), which are their own iterators.
IterAgain(g) ==
    IF g.from \in {"pull", "push"}
    THEN [NewGen EXCEPT !.from = g.from, !.pass = g.pass + 1]
    ELSE [g EXCEPT !.pass = @ + 1]

\* The same for the cooperative operations: apull and apush return the
\* AsyncStreamProcessor (993, 1054), the others an async generator.
AiterAgain(g) ==
    IF g.from \in {"pull", "push"}
    THEN [NewGen EXCEPT !.from = g.from, !.pass = g.pass + 1]
    ELSE [g EXCEPT !.pass = @ + 1]

\* The consumer advances the blocking generator (next()).
SpNext ==
    /\ sp.st \notin {"finished", "raised"}
    /\ sp' = Advance(sp, StreamProcessorIter(body, sp.pos))
    /\ UNCHANGED <<body, asp, handler>>
    /\ UNCHANGED chatVars
    /\ UNCHANGED reqVars

\* The consumer advances the cooperative generator (__anext__()).
AspNext ==
    /\ asp.st \notin {"finished", "raised"}
    /\ asp' = Advance(asp, AsyncStreamProcessorAiter(body, asp.pos))
    /\ UNCHANGED <<body, sp, handler>>
    /\ UNCHANGED chatVars
    /\ UNCHANGED reqVars

\* The consumer iterates once more over an exhausted blocking sequence.
SpIter ==
    /\ sp.st = "finished"
    /\ sp.pass < MaxPasses
    /\ sp' = IterAgain(sp)
    /\ UNCHANGED <<body, asp, handler>>
    /\ UNCHANGED chatVars
    /\ UNCHANGED reqVars

\* The consumer iterates once more over an exhausted cooperative sequence.
AspIter ==
    /\ asp.st = "finished"
    /\ asp.pass < MaxPasses
    /\ asp' = AiterAgain(asp)
    /\ UNCHANGED <<body, sp, handler>>
    /\ UNCHANGED chatVars
    /\ UNCHANGED reqVars

(* ------------------------------------------------------------------ *)
(* Conversation store: data                                             *)
(* ------------------------------------------------------------------ *)
Models == {"llama3", "phi"}
UserContents == {"hi", "yes"}
SystemText == "be brief"
EncodedImage == "aW1n"

ListIds == 1..MaxLists
Addrs == 1..MaxAddrs
CallIds == 1..MaxCalls

\* A message dict: its "role" and "content" keys and its "images" key
\* ("absent" when the dict has none).
Msg(role, content, images) == [role |-> role, content |-> content, images |-> images]

\* None where a Message is expected.
NoMsg == Msg("none", "", "absent")

\* conv_id = f"{model}-{id(messages)}": id() is the address of the list
\* object; the text after the last "-" is the id, so the pair decides it.
ConvId(model, addr) == <<model, addr>>

NoKey == <<"", 0>>

Key(m, h) == ConvId(m, lists[h].addr)

\* self._conversations.get(conv_id, [])
Entry(c, k) == IF k \in DOMAIN c THEN c[k] ELSE <<>>

\* The messages of a list of dicts, by value.
Vals(refs, heap) == [i \in 1..Len(refs) |-> heap[refs[i]]]

InVals(v, refs, heap) == \E i \in 1..Len(refs) : heap[refs[i]] = v

\* No operation of the request layer yet.
NoRq ==
    [op |-> "", async |-> FALSE, stream |-> FALSE, status |-> 0, text |-> "",
     readable |-> TRUE, inner |-> "none", raised |-> "none", detail |-> "",
     value |-> EmptyObj, ret |-> "", error |-> "", method |-> ""]

UnbornList == [st |-> "unborn", addr |-> 0, items |-> <<>>, sent |-> 0]

IdleCall ==
    [pc |-> "idle", kind |-> "", stream |-> FALSE, key |-> NoKey, req |-> <<>>,
     source |-> "", final |-> [set |-> FALSE, message |-> NoMsg],
     pre |-> 0, turn |-> FALSE, read |-> 0, seen |-> 0, seenMsg |-> 0,
     appended |-> 0, acc |-> "", last |-> "", frames |-> <<>>, deliv |-> <<>>]

NoOp ==
    [name |-> "init", kind |-> "", stream |-> FALSE, key |-> NoKey, list |-> 0, call |-> 0,
     ret |-> "", hist |-> <<>>, pre |-> 0, turn |-> FALSE, fin |-> FALSE,
     seen |-> 0, seenMsg |-> 0, appended |-> 0, acc |-> "", last |-> "",
     req |-> <<>>, retry |-> FALSE, frames |-> <<>>, deliv |-> <<>>]

(* ------------------------------------------------------------------ *)
(* Response model layer                                                 *)
(* ------------------------------------------------------------------ *)
\* Message.from_dict on the "message" object of a payload.
MessageFromDict(obj) ==
    Msg(IF obj.role = "absent" THEN "" ELSE obj.role,
        IF obj.content = "absent" THEN "" ELSE obj.content,
        "absent")

\* ChatResponse.from_dict: message is None without a "message" key, done
\* defaults to False.
ChatResponseFromDict(obj) ==
    [message |-> IF obj.message = "obj" THEN MessageFromDict(obj) ELSE NoMsg,
     done |-> obj.done = "true"]

\* Message.to_dict: role and content, images only when truthy.
MessageToDict(m) == Msg(m.role, m.content, m.images)

(* ------------------------------------------------------------------ *)
(* Request core                                                         *)
(* ------------------------------------------------------------------ *)
\* A response of the server: status 0 stands for no response at all (the
\* transport failed or timed out), text is the body of a buffered response.
Statuses == {0, 200, 201, 404, 500}
BodyTexts == {TxtEndOk, TxtDoneOnly, TxtBad}
Responses == [status : Statuses, text : BodyTexts]

\* str(e) of the httpx.HTTPStatusError raise_for_status() raises.
RawStatus(status) ==
    CASE status = 400 -> "Client error '400 Bad Request'"
      [] status = 404 -> "Client error '404 Not Found'"
      [] status = 500 -> "Server error '500 Internal Server Error'"
      [] OTHER -> ""

\* Lines 135-141: the "error" value of the body when the body decodes and
\* has the key, else str(e); a failure of json() or of the lookup is
\* swallowed.
ErrorMessage(resp) ==
    IF IsJson(resp.text) /\ JsonLoads(resp.text).error # "absent"
    THEN JsonLoads(resp.text).error
    ELSE RawStatus(resp.status)

\* Lines 228-234: `await e.response.json()` awaits what json() returned, which
\* is no awaitable: the TypeError (or the decode error of json()) is
\* swallowed and the message stays str(e).
AsyncErrorMessage(resp) == RawStatus(resp.status)

\* _request with the 404 test of line 133 left out.
RequestNoNotFound(resp, stream) ==
    IF resp.status = 0
    THEN [raised |-> "OllamaConnectionError", source |-> "", value |-> EmptyObj, detail |-> ""]
    ELSE IF resp.status >= 400
    THEN [raised |-> "OllamaRequestError", source |-> "", value |-> EmptyObj,
          detail |-> ErrorMessage(resp)]
    ELSE IF resp.status = 204 \/ resp.status = 201
    THEN [raised |-> "none", source |-> "dict", value |-> EmptyObj, detail |-> ""]
    ELSE IF stream
    THEN [raised |-> "none", source |-> "lines", value |-> EmptyObj, detail |-> ""]
    ELSE IF IsJson(resp.text)
    THEN [raised |-> "none", source |-> "dict", value |-> JsonLoads(resp.text), detail |-> ""]
    ELSE [raised |-> "OllamaError", source |-> "", value |-> EmptyObj, detail |-> ""]

\* Ollama._request: the error raised ("none" when it returns) with the detail
\* of its message, and the value returned: {} for 201/204, the stream
\* processor for stream=True, else response.json().
Request(resp, stream) ==
    IF resp.status = 0
    THEN [raised |-> "OllamaConnectionError", source |-> "", value |-> EmptyObj, detail |-> ""]
    ELSE IF resp.status = 404
    THEN [raised |-> "OllamaModelNotFoundError", source |-> "", value |-> EmptyObj,
          detail |-> RawStatus(resp.status)]
    ELSE IF resp.status >= 400
    THEN [raised |-> "OllamaRequestError", source |-> "", value |-> EmptyObj,
          detail |-> ErrorMessage(resp)]
    ELSE IF resp.status = 204 \/ resp.status = 201
    THEN [raised |-> "none", source |-> "dict", value |-> EmptyObj, detail |-> ""]
    ELSE IF stream
    THEN [raised |-> "none", source |-> "lines", value |-> EmptyObj, detail |-> ""]
    ELSE IF IsJson(resp.text)
    THEN [raised |-> "none", source |-> "dict", value |-> JsonLoads(resp.text), detail |-> ""]
    ELSE [raised |-> "OllamaError", source |-> "", value |-> EmptyObj, detail |-> ""]

\* Ollama._async_request: the same classification; a body that cannot be
\* parsed ends in the catch-all OllamaError as well.
AsyncRequest(resp, stream) ==
    IF resp.status = 0
    THEN [raised |-> "OllamaConnectionError", source |-> "", value |-> EmptyObj, detail |-> ""]
    ELSE IF resp.status = 404
    THEN [raised |-> "OllamaModelNotFoundError", source |-> "", value |-> EmptyObj,
          detail |-> RawStatus(resp.status)]
    ELSE IF resp.status >= 400
    THEN [raised |-> "OllamaRequestError", source |-> "", value |-> EmptyObj,
          detail |-> AsyncErrorMessage(resp)]
    ELSE IF resp.status = 204 \/ resp.status = 201
    THEN [raised |-> "none", source |-> "dict", value |-> EmptyObj, detail |-> ""]
    ELSE IF stream
    THEN [raised |-> "none", source |-> "lines", value |-> EmptyObj, detail |-> ""]
    ELSE IF IsJson(resp.text)
    THEN [raised |-> "none", source |-> "dict", value |-> JsonLoads(resp.text), detail |-> ""]
    ELSE [raised |-> "OllamaError", source |-> "", value |-> EmptyObj, detail |-> ""]

(* ------------------------------------------------------------------ *)
(* Ollama._prepare_chat_messages and the history merge                  *)
(* ------------------------------------------------------------------ *)
\* The index of the last dict with role "user" in items, 0 when none: the
\* backwards loop of lines 316-319.
RECURSIVE LastUser(_, _, _)
LastUser(items, heap, i) ==
    IF i = 0 THEN 0
    ELSE IF heap[items[i]].role = "user" THEN i
    ELSE LastUser(items, heap, i - 1)

\* The heap after _prepare_chat_messages: with images, the "images" key of
\* the last user message is set, in the caller's own dict (line 318).
PrepareHeap(items, heap, img) ==
    IF img /\ LastUser(items, heap, Len(items)) # 0
    THEN [heap EXCEPT ![items[LastUser(items, heap, Len(items))]].images = EncodedImage]
    ELSE heap

\* The processed list: the system message first when given (a new dict,
\* written 0 until it is stored), then the caller's dicts themselves.
PrepareList(items, sys) == (IF sys THEN <<0>> ELSE <<>>) \o items

MsgVal(ref, heap) == IF ref = 0 THEN Msg("system", SystemText, "absent") ELSE heap[ref]

\* Lines 515-517: each prepared message, in order, is appended unless an
\* equal message (dict ==) is in the entry already.
RECURSIVE MergeMessages(_, _, _)
MergeMessages(hist, heap, msgs) ==
    IF msgs = <<>>
    THEN [hist |-> hist, heap |-> heap]
    ELSE IF InVals(MsgVal(Head(msgs), heap), hist, heap)
    THEN MergeMessages(hist, heap, Tail(msgs))
    ELSE IF Head(msgs) = 0
    THEN MergeMessages(Append(hist, Len(heap) + 1),
                       Append(heap, MsgVal(0, heap)), Tail(msgs))
    ELSE MergeMessages(Append(hist, Head(msgs)), heap, Tail(msgs))

(* ------------------------------------------------------------------ *)
(* The caller: its message lists                                        *)
(* ------------------------------------------------------------------ *)
LiveAddrs == {lists[h].addr : h \in {x \in ListIds : lists[x].st = "alive"}}

\* The caller works on its lists between the client's calls.
Quiet == busy = 0 /\ \A c \in CallIds : calls[c].pc = "idle"

\* The caller builds a new, empty message list; the allocator places it at
\* any address no live object occupies.
NewList(h, a) ==
    /\ Quiet
    /\ lists[h].st = "unborn"
    /\ \A x \in ListIds : x < h => lists[x].st # "unborn"
    /\ a \notin LiveAddrs
    /\ \A b \in Addrs : b < a => \E x \in ListIds : lists[x].addr = b
    /\ lists' = [lists EXCEPT ![h] = [UnbornList EXCEPT !.st = "alive", !.addr = a]]
    /\ op' = [NoOp EXCEPT !.name = "caller"]
    /\ UNCHANGED <<dicts, conv, calls, busy, accum, nops>>
    /\ UNCHANGED streamVars
    /\ UNCHANGED reqVars

\* The caller appends its turn's user message, a new dict, to a list.
AppendUser(h, content) ==
    /\ Quiet
    /\ lists[h].st = "alive"
    /\ Len(dicts) < MaxDicts
    /\ Cardinality({i \in 1..Len(dicts) : dicts[i].role = "user"}) < MaxUserMsgs
    /\ content = "hi" \/ \E i \in 1..Len(dicts) : dicts[i].content = "hi"
    /\ dicts' = Append(dicts, Msg("user", content, "absent"))
    /\ lists' = [lists EXCEPT ![h].items = Append(@, Len(dicts) + 1)]
    /\ op' = [NoOp EXCEPT !.name = "caller"]
    /\ UNCHANGED <<conv, calls, busy, accum, nops>>
    /\ UNCHANGED streamVars
    /\ UNCHANGED reqVars

\* The caller drops its last reference to a list: the object is freed and
\* its address may be given to a later object.
FreeList(h) ==
    /\ Quiet
    /\ lists[h].st = "alive"
    /\ lists' = [lists EXCEPT ![h].st = "freed"]
    /\ op' = [NoOp EXCEPT !.name = "caller"]
    /\ UNCHANGED <<dicts, conv, calls, busy, accum, nops>>
    /\ UNCHANGED streamVars
    /\ UNCHANGED reqVars

(* ------------------------------------------------------------------ *)
(* Ollama.chat / Ollama.achat: up to the dispatch                       *)
(* ------------------------------------------------------------------ *)
\* Model names are interchangeable: the first one a run uses is "llama3".
FirstModelFirst(m) == m = "llama3" \/ \E k \in DOMAIN conv : k[1] = "llama3"

\* Lines 507-509: the entry of conv_id, created empty when missing.
EnsureEntry(c, k) == IF k \in DOMAIN c THEN c ELSE (k :> <<>>) @@ c

\* The merge without the test of line 516: every prepared message appended.
ChatMergeNoTest(hist, heap, items, sys, img) ==
    [hist |-> hist \o (IF sys THEN <<Len(heap) + 1>> ELSE <<>>) \o items,
     heap |-> IF sys
              THEN Append(PrepareHeap(items, heap, img), MsgVal(0, heap))
              ELSE PrepareHeap(items, heap, img)]

\* Lines 511-517 of chat: prepare, then merge into the entry.
ChatMerge(hist, heap, items, sys, img) ==
    MergeMessages(hist, PrepareHeap(items, heap, img), PrepareList(items, sys))

\* Lines 596-602 of achat.
AchatMerge(hist, heap, items, sys, img) ==
    MergeMessages(hist, PrepareHeap(items, heap, img), PrepareList(items, sys))

\* This call is the caller's next turn on its list: the list ends with a user
\* message not sent before, everything before it is in the history already,
\* and neither system nor images is given.
IsTurn(h, k, sys, img) ==
    LET items == lists[h].items
        n == Len(items)
    IN /\ ~sys /\ ~img
       /\ n >= 1
       /\ lists[h].sent < n
       /\ dicts[items[n]].role = "user"
       /\ \A i \in 1..(n - 1) : InVals(dicts[items[i]], Entry(conv, k), dicts)

\* This call follows a buffered call to the same key that failed, with the
\* same messages.
IsRetry(k, req, stream) ==
    /\ op.name \in {"chat_return", "achat_return"}
    /\ op.ret # "ok"
    /\ ~op.stream /\ ~stream
    /\ op.key = k
    /\ op.req = req

\* The call up to the point where the request is on the wire.
CallStep(kind, mg, c, h, m, sys, img, stream) ==
    LET k == Key(m, h)
        old == Entry(conv, k)
        new == SubSeq(mg.hist, Len(old) + 1, Len(mg.hist))
    IN /\ Len(mg.heap) <= MaxDicts
       /\ stream => nops < MaxStreams
       /\ dicts' = mg.heap
       /\ conv' = [EnsureEntry(conv, k) EXCEPT ![k] = mg.hist]
       /\ accum' = IF k \in DOMAIN accum
                   THEN [accum EXCEPT ![k].msgs = @ \o new]
                   ELSE (k :> [msgs |-> new, by |-> h]) @@ accum
       /\ lists' = [lists EXCEPT ![h].sent = Len(lists[h].items)]
       /\ nops' = nops + 1
       /\ calls' = [calls EXCEPT ![c] =
                       [IdleCall EXCEPT !.pc = "dispatched", !.kind = kind,
                                        !.stream = stream, !.key = k,
                                        !.req = [i \in 1..Len(PrepareList(lists[h].items, sys)) |->
                                                   MsgVal(PrepareList(lists[h].items, sys)[i], mg.heap)],
                                        !.pre = Len(old),
                                        !.turn = IsTurn(h, k, sys, img)]]
       /\ op' = [NoOp EXCEPT !.name = kind, !.kind = kind, !.stream = stream,
                             !.key = k, !.list = h, !.call = c, !.pre = Len(old),
                             !.turn = IsTurn(h, k, sys, img),
                             !.retry = IsRetry(k, [i \in 1..Len(PrepareList(lists[h].items, sys)) |->
                                                     MsgVal(PrepareList(lists[h].items, sys)[i], mg.heap)],
                                               stream)]

\* chat(model, messages, system, images, stream) until _request is entered;
\* the call blocks the caller's thread until the response is in.
ChatCall(c, h, m, sys, img, stream) ==
    /\ busy = 0
    /\ nops < MaxOps
    /\ calls[c].pc = "idle"
    /\ \A d \in CallIds : d < c => calls[d].pc # "idle"
    /\ lists[h].st = "alive"
    /\ FirstModelFirst(m)
    /\ CallStep("chat", ChatMerge(Entry(conv, Key(m, h)), dicts, lists[h].items, sys, img),
                c, h, m, sys, img, stream)
    /\ busy' = c
    /\ UNCHANGED streamVars
    /\ UNCHANGED reqVars

\* achat(...) until it suspends in await self._async_request(...).
AchatCall(c, h, m, sys, img, stream) ==
    /\ busy = 0
    /\ nops < MaxOps
    /\ calls[c].pc = "idle"
    /\ \A d \in CallIds : d < c => calls[d].pc # "idle"
    /\ lists[h].st = "alive"
    /\ FirstModelFirst(m)
    /\ CallStep("achat", AchatMerge(Entry(conv, Key(m, h)), dicts, lists[h].items, sys, img),
                c, h, m, sys, img, stream)
    /\ UNCHANGED busy
    /\ UNCHANGED streamVars
    /\ UNCHANGED reqVars

(* ------------------------------------------------------------------ *)
(* Ollama.chat / Ollama.achat: after the dispatch                       *)
(* ------------------------------------------------------------------ *)
\* The entry rebound to a new list holding the reply, in place of the
\* append.
StoreReplyRebinds(c, heap, k, message) ==
    [conv |-> [c EXCEPT ![k] = <<Len(heap) + 1>>],
     heap |-> Append(heap, MessageToDict(message))]

\* self._conversations[conv_id].append(message.to_dict()): a new dict.
StoreReply(c, heap, k, message) ==
    [conv |-> [c EXCEPT ![k] = Append(@, Len(heap) + 1)],
     heap |-> Append(heap, MessageToDict(message))]

\* Lines 557 / 635: the buffered reply is stored when it has a message.
ChatStoresReply(response) == response.message # NoMsg

AchatStoresReply(response) == response.message # NoMsg

\* A failed dispatch that takes back what the call merged: the entry is cut
\* to the length it had when the call began.
AfterFailedDispatchRollsBack(c, k, pre) ==
    [c EXCEPT ![k] = SubSeq(@, 1, IF pre < Len(@) THEN pre ELSE Len(@))]

\* The error of self._request / self._async_request leaves chat / achat at
\* lines 553 / 631: no handler, nothing is done to the store.
AfterFailedDispatch(c, k, pre) == c

\* The part of chat / achat after the request returned or raised.
ReturnStep(out, stores, c) ==
    LET call == calls[c]
        k == call.key
        response == ChatResponseFromDict(out.value)
        done == [NoOp EXCEPT !.name = call.kind \o "_return", !.kind = call.kind,
                             !.stream = call.stream, !.key = k, !.call = c,
                             !.pre = call.pre, !.turn = call.turn]
    IN IF out.raised # "none"
       THEN /\ calls' = [calls EXCEPT ![c] = IdleCall]
            /\ op' = [done EXCEPT !.ret = out.raised, !.fin = TRUE, !.req = call.req]
            /\ conv' = AfterFailedDispatch(conv, k, call.pre)
            /\ UNCHANGED <<dicts, accum>>
       ELSE IF call.stream
       THEN /\ calls' = [calls EXCEPT ![c].pc = "gen", ![c].source = out.source]
            /\ op' = [done EXCEPT !.ret = "ok"]
            /\ UNCHANGED <<dicts, conv, accum>>
       ELSE IF stores
       THEN /\ Len(dicts) < MaxDicts
            /\ dicts' = StoreReply(conv, dicts, k, response.message).heap
            /\ conv' = StoreReply(conv, dicts, k, response.message).conv
            /\ accum' = [accum EXCEPT ![k].msgs = Append(@, Len(dicts) + 1)]
            /\ calls' = [calls EXCEPT ![c] = IdleCall]
            /\ op' = [done EXCEPT !.ret = "ok", !.fin = TRUE, !.appended = 1,
                                  !.last = response.message.content]
       ELSE /\ calls' = [calls EXCEPT ![c] = IdleCall]
            /\ op' = [done EXCEPT !.ret = "ok", !.fin = TRUE]
            /\ UNCHANGED <<dicts, conv, accum>>

\* chat: self._request returns or raises (lines 535 / 553-560).
ChatReturn(c, resp) ==
    /\ busy = c
    /\ calls[c].pc = "dispatched"
    /\ calls[c].kind = "chat"
    /\ ReturnStep(Request(resp, calls[c].stream),
                  ChatStoresReply(ChatResponseFromDict(Request(resp, calls[c].stream).value)), c)
    /\ busy' = 0
    /\ UNCHANGED <<lists, nops>>
    /\ UNCHANGED streamVars
    /\ UNCHANGED reqVars

\* achat: the awaited self._async_request returns or raises (620 / 631-638).
AchatReturn(c, resp) ==
    /\ busy = 0
    /\ calls[c].pc = "dispatched"
    /\ calls[c].kind = "achat"
    /\ ReturnStep(AsyncRequest(resp, calls[c].stream),
                  AchatStoresReply(ChatResponseFromDict(AsyncRequest(resp, calls[c].stream).value)), c)
    /\ UNCHANGED <<lists, busy, nops>>
    /\ UNCHANGED streamVars
    /\ UNCHANGED reqVars

(* ------------------------------------------------------------------ *)
(* process_responses: the generators a streaming chat returns           *)
(* ------------------------------------------------------------------ *)
Eof == "<end of stream>"
ChatLines == {TxtEmpty, TxtBad, TxtHe, TxtY, TxtEnd, TxtEndOk, TxtDoneOnly}

GenOp(call, c) ==
    [NoOp EXCEPT !.name = IF call.kind = "chat" THEN "next" ELSE "anext",
                 !.kind = call.kind, !.stream = TRUE, !.key = call.key, !.call = c,
                 !.pre = call.pre, !.turn = call.turn, !.seen = call.seen,
                 !.seenMsg = call.seenMsg, !.appended = call.appended, !.acc = call.acc, !.last = call.last,
                 !.frames = call.frames, !.deliv = call.deliv]

\* The call record after one more decoded frame.
Framed(call, response) ==
    [call EXCEPT !.read = @ + 1,
                 !.frames = Append(@, response),
                 !.seen = IF response.done THEN @ + 1 ELSE @,
                 !.seenMsg = IF response.done /\ response.message # NoMsg THEN @ + 1 ELSE @,
                 !.acc = IF response.message # NoMsg
                         THEN @ \o response.message.content ELSE @]

\* Line 547: at the end of the stream the blocking generator stores the
\* last terminal frame's message, when there is one.
ChatFinalStored(final) == final.set /\ final.message # NoMsg

\* Line 625 without its `response.done` test: every frame's message stored.
AchatAnyFrameStored(response) == response.message # NoMsg

\* Line 625: the cooperative generator stores the message of a frame that
\* is terminal.
AchatFrameStored(response) == response.done /\ response.message # NoMsg

\* chat's process_responses, advanced by the consumer: one line of the
\* stream per step; the caller's thread stays in next() until a frame is
\* yielded or the generator ends.
ChatNext(c, line) ==
    LET call == calls[c]
        response == ChatResponseFromDict(JsonLoads(line))
    IN /\ call.kind = "chat"
       /\ call.pc = "gen"
       /\ busy \in {0, c}
       /\ line # Eof => call.source = "lines" /\ call.read < MaxFrames
       /\ IF line = Eof
          THEN IF ChatFinalStored(call.final)
               THEN /\ Len(dicts) < MaxDicts
                    /\ dicts' = StoreReply(conv, dicts, call.key, call.final.message).heap
                    /\ conv' = StoreReply(conv, dicts, call.key, call.final.message).conv
                    /\ accum' = [accum EXCEPT ![call.key].msgs = Append(@, Len(dicts) + 1)]
                    /\ calls' = [calls EXCEPT ![c] = IdleCall]
                    /\ busy' = 0
                    /\ op' = [GenOp(call, c) EXCEPT
                                 !.fin = TRUE, !.appended = @ + 1,
                                 !.last = call.final.message.content,
                                 !.deliv = Append(@, [message |-> call.final.message,
                                                      done |-> TRUE])]
               ELSE /\ calls' = [calls EXCEPT ![c] = IdleCall]
                    /\ busy' = 0
                    /\ op' = [GenOp(call, c) EXCEPT !.fin = TRUE]
                    /\ UNCHANGED <<dicts, conv, accum>>
          ELSE IF ~SpLineYields(line)
          THEN /\ calls' = [calls EXCEPT ![c].read = @ + 1]
               /\ busy' = c
               /\ op' = GenOp(calls'[c], c)
               /\ UNCHANGED <<dicts, conv, accum>>
          ELSE IF response.done
          THEN /\ calls' = [calls EXCEPT ![c] =
                               [Framed(call, response) EXCEPT
                                   !.final = [set |-> TRUE, message |-> response.message]]]
               /\ busy' = c
               /\ op' = GenOp(calls'[c], c)
               /\ UNCHANGED <<dicts, conv, accum>>
          ELSE /\ calls' = [calls EXCEPT ![c] =
                               [Framed(call, response) EXCEPT !.deliv = Append(@, response)]]
               /\ busy' = 0
               /\ op' = GenOp(calls'[c], c)
               /\ UNCHANGED <<dicts, conv, accum>>
       /\ UNCHANGED <<lists, nops>>
       /\ UNCHANGED streamVars
       /\ UNCHANGED reqVars

\* achat's process_responses: one line per step; the task may be suspended
\* at every line read.
AchatNext(c, line) ==
    LET call == calls[c]
        response == ChatResponseFromDict(JsonLoads(line))
    IN /\ call.kind = "achat"
       /\ call.pc = "gen"
       /\ busy = 0
       /\ line # Eof => call.source = "lines" /\ call.read < MaxFrames
       /\ IF line = Eof
          THEN /\ calls' = [calls EXCEPT ![c] = IdleCall]
               /\ op' = [GenOp(call, c) EXCEPT !.fin = TRUE]
               /\ UNCHANGED <<dicts, conv, accum>>
          ELSE IF ~AspLineYields(line)
          THEN /\ calls' = [calls EXCEPT ![c].read = @ + 1]
               /\ op' = GenOp(calls'[c], c)
               /\ UNCHANGED <<dicts, conv, accum>>
          ELSE IF AchatFrameStored(response)
          THEN /\ Len(dicts) < MaxDicts
               /\ dicts' = StoreReply(conv, dicts, call.key, response.message).heap
               /\ conv' = StoreReply(conv, dicts, call.key, response.message).conv
               /\ accum' = [accum EXCEPT ![call.key].msgs = Append(@, Len(dicts) + 1)]
               /\ calls' = [calls EXCEPT ![c] =
                               [Framed(call, response) EXCEPT
                                   !.appended = @ + 1,
                                   !.last = response.message.content,
                                   !.deliv = Append(@, response)]]
               /\ op' = GenOp(calls'[c], c)
          ELSE /\ calls' = [calls EXCEPT ![c] =
                               [Framed(call, response) EXCEPT !.deliv = Append(@, response)]]
               /\ op' = GenOp(calls'[c], c)
               /\ UNCHANGED <<dicts, conv, accum>>
       /\ UNCHANGED <<lists, busy, nops>>
       /\ UNCHANGED streamVars
       /\ UNCHANGED reqVars

\* What chat's generator yields over a whole stream of decoded frames
\* (lines 538-549): the frames that are not terminal, in order, then the
\* last terminal frame when it has a message.
ChatDelivers(frames) ==
    LET terminal == {i \in 1..Len(frames) : frames[i].done}
        last == IF terminal = {} THEN 0
                ELSE CHOOSE i \in terminal : \A j \in terminal : j <= i
    IN SelectSeq(frames, LAMBDA f : ~f.done)
         \o (IF last # 0 /\ frames[last].message # NoMsg THEN <<frames[last]>> ELSE <<>>)

\* What chat's generator stores: the message of the last terminal frame.
ChatStores(frames) ==
    LET terminal == {i \in 1..Len(frames) : frames[i].done}
        last == IF terminal = {} THEN 0
                ELSE CHOOSE i \in terminal : \A j \in terminal : j <= i
    IN IF last # 0 /\ frames[last].message # NoMsg THEN <<frames[last].message>> ELSE <<>>

\* What achat's generator yields (lines 623-627): every frame.
AchatDelivers(frames) == frames

\* What achat's generator stores: the message of every terminal frame that
\* has one.
AchatStores(frames) ==
    LET stored == SelectSeq(frames, LAMBDA f : f.done /\ f.message # NoMsg)
    IN [i \in 1..Len(stored) |-> stored[i].message]

\* The consumer abandons a suspended generator (it is closed or dropped).
Close(c) ==
    /\ busy = 0
    /\ calls[c].pc = "gen"
    /\ calls' = [calls EXCEPT ![c] = IdleCall]
    /\ op' = [GenOp(calls[c], c) EXCEPT !.name = "close", !.fin = TRUE]
    /\ UNCHANGED <<lists, dicts, conv, busy, accum, nops>>
    /\ UNCHANGED streamVars
    /\ UNCHANGED reqVars

(* ------------------------------------------------------------------ *)
(* get_conversation_history / clear_conversation_history                *)
(* ------------------------------------------------------------------ *)
\* Line 1272: self._conversations.get(conv_id, [])
GetConversationHistory(c, k) == Entry(c, k)

\* The clear without the membership test of line 1286: the entry is set to
\* [] and True returned whether or not conv_id was in the store.
ClearConversationHistoryAlways(c, k) ==
    [conv |-> [EnsureEntry(c, k) EXCEPT ![k] = <<>>], ret |-> "True"]

\* Lines 1286-1289: the entry is emptied and True returned when conv_id
\* is in the store, False returned otherwise.
ClearConversationHistory(c, k) ==
    IF k \in DOMAIN c
    THEN [conv |-> [c EXCEPT ![k] = <<>>], ret |-> "True"]
    ELSE [conv |-> c, ret |-> "False"]

Get(m, h) ==
    /\ busy = 0
    /\ lists[h].st = "alive"
    /\ FirstModelFirst(m)
    /\ op' = [NoOp EXCEPT !.name = "get", !.key = Key(m, h), !.list = h,
                          !.hist = GetConversationHistory(conv, Key(m, h))]
    /\ UNCHANGED <<lists, dicts, conv, calls, busy, accum, nops>>
    /\ UNCHANGED streamVars
    /\ UNCHANGED reqVars

Clear(m, h) ==
    /\ busy = 0
    /\ nops < MaxOps
    /\ lists[h].st = "alive"
    /\ FirstModelFirst(m)
    /\ nops' = nops + 1
    /\ conv' = ClearConversationHistory(conv, Key(m, h)).conv
    /\ accum' = [k \in DOMAIN accum |->
                   IF k = Key(m, h) THEN [accum[k] EXCEPT !.msgs = <<>>] ELSE accum[k]]
    /\ op' = [NoOp EXCEPT !.name = "clear", !.key = Key(m, h), !.list = h,
                          !.ret = ClearConversationHistory(conv, Key(m, h)).ret]
    /\ UNCHANGED <<lists, dicts, calls, busy>>
    /\ UNCHANGED streamVars
    /\ UNCHANGED reqVars

(* ------------------------------------------------------------------ *)
(* Operations on the request core                                       *)
(* ------------------------------------------------------------------ *)
\* What the server can answer: status 0 stands for no response at all.
RqStatuses == {0, 200, 201, 204, 400, 404, 500}
RqTexts == {TxtEmpty, TxtBad, TxtBraces, TxtErr, TxtErrList}
RqResponses == [status : RqStatuses, text : RqTexts]

\* Operations that return what the request core returns and let its errors
\* through.
RaisingOps == {"generate", "create", "pull", "push"}

\* Operations that return a bool.
BoolOps == {"copy", "delete", "blob_exists"}

\* generate / create / pull / push and their cooperative variants: the
\* request is made in the call itself, with or without stream=True.
Call(name, async, resp, stream) ==
    LET out == IF async THEN AsyncRequest(resp, stream) ELSE Request(resp, stream)
    IN /\ rq' = [NoRq EXCEPT !.op = name, !.async = async, !.stream = stream,
                             !.status = resp.status, !.text = resp.text,
                             !.inner = out.raised, !.raised = out.raised,
                             !.detail = out.detail, !.value = out.value,
                             !.ret = IF out.raised # "none" THEN ""
                                     ELSE IF out.source = "lines" THEN "sequence"
                                     ELSE "result"]
       /\ UNCHANGED <<co, dec, mf>>
       /\ UNCHANGED streamVars
       /\ UNCHANGED chatVars

\* A HEAD response (blob_exists, method head) has no body.
BodyOf(name, resp) == IF name \in {"blob_exists", "head"} THEN [resp EXCEPT !.text = TxtEmpty] ELSE resp

\* The HTTP methods a caller of the request core may name; the core sends
\* get, post, delete and head (lines 107-116, 184-193).
Methods == {"get", "post", "delete", "head", "put"}
SupportedMethods == {"get", "post", "delete", "head"}

\* The request core without its last handler: the exception goes on as it is.
CatchAllReraises(kind) == kind

\* `except Exception as e: raise OllamaError(...)` (lines 147-148, 240-241).
CatchAll(kind) == "OllamaError"

\* _request / _async_request called with a method: `raise ValueError` of
\* line 118 (195) is inside the try, so the last handler takes it.
RequestWithMethod(async, method, resp, stream) ==
    IF method \notin SupportedMethods
    THEN [raised |-> CatchAll("ValueError"), source |-> "", value |-> EmptyObj, detail |-> ""]
    ELSE IF async THEN AsyncRequest(BodyOf(method, resp), stream)
    ELSE Request(BodyOf(method, resp), stream)

\* A direct call of the request core.
CoreCall(async, method, resp, stream) ==
    LET out == RequestWithMethod(async, method, resp, stream)
    IN /\ rq' = [NoRq EXCEPT !.op = IF async THEN "_async_request" ELSE "_request",
                             !.async = async, !.stream = stream, !.method = method,
                             !.status = resp.status, !.text = BodyOf(method, resp).text,
                             !.inner = out.raised, !.raised = out.raised,
                             !.detail = out.detail, !.value = out.value,
                             !.ret = IF out.raised # "none" THEN ""
                                     ELSE IF out.source = "lines" THEN "sequence"
                                     ELSE "result"]
       /\ UNCHANGED <<co, dec, mf>>
       /\ UNCHANGED streamVars
       /\ UNCHANGED chatVars

\* `except OllamaError` with a narrower class in its place.
CaughtByBoolOpNarrow(kind) == IsA(kind, "OllamaRequestError")

\* `except OllamaError:` of copy, delete and blob_exists.
CaughtByBoolOp(kind) == IsA(kind, "OllamaError")

\* copy / delete / blob_exists (lines 856-860, 899-903, 1189-1193): True when
\* the request returns, False when it raises an error the handler catches.
BoolResult(out) ==
    IF out.raised = "none" THEN [ret |-> "True", raised |-> "none"]
    ELSE IF CaughtByBoolOp(out.raised) THEN [ret |-> "False", raised |-> "none"]
    ELSE [ret |-> "", raised |-> out.raised]

BoolCall(name, async, resp) ==
    LET r == BodyOf(name, resp)
        out == IF async THEN AsyncRequest(r, FALSE) ELSE Request(r, FALSE)
    IN /\ rq' = [NoRq EXCEPT !.op = name, !.async = async,
                             !.status = r.status, !.text = r.text,
                             !.inner = out.raised,
                             !.raised = BoolResult(out).raised,
                             !.ret = BoolResult(out).ret]
       /\ UNCHANGED <<co, dec, mf>>
       /\ UNCHANGED streamVars
       /\ UNCHANGED chatVars

\* push_blob (1226-1233): the file is opened, the upload goes through
\* _request, and any exception becomes a BlobStatus.
PushBlob(readable, resp) ==
    IF ~readable THEN [success |-> FALSE, error |-> "OSError"]
    ELSE IF Request(resp, FALSE).raised # "none"
    THEN [success |-> FALSE, error |-> Request(resp, FALSE).raised]
    ELSE [success |-> TRUE, error |-> "None"]

\* apush_blob (1246-1258): its own client.post and raise_for_status(); the
\* body is not read.
ApushBlob(readable, resp) ==
    IF ~readable THEN [success |-> FALSE, error |-> "OSError"]
    ELSE IF resp.status = 0 THEN [success |-> FALSE, error |-> "httpx.RequestError"]
    ELSE IF resp.status >= 400 THEN [success |-> FALSE, error |-> "httpx.HTTPStatusError"]
    ELSE [success |-> TRUE, error |-> "None"]

PushBlobCall(async, readable, resp) ==
    LET st == IF async THEN ApushBlob(readable, resp) ELSE PushBlob(readable, resp)
    IN /\ rq' = [NoRq EXCEPT !.op = "push_blob", !.async = async,
                             !.status = resp.status, !.text = resp.text,
                             !.readable = readable,
                             !.ret = IF st.success THEN "True" ELSE "False",
                             !.error = st.error]
       /\ UNCHANGED <<co, dec, mf>>
       /\ UNCHANGED streamVars
       /\ UNCHANGED chatVars

(* ------------------------------------------------------------------ *)
(* The response mappings: from_dict of src/models.py                    *)
(* ------------------------------------------------------------------ *)
\* The classes whose from_dict the client applies to a decoded object.
Mappings ==
    {"Message", "GenerateResponse", "ChatResponse", "EmbedResponse",
     "OllamaModel", "RunningModel", "ModelInfo"}

\* The decoded JSON objects handed to from_dict: any subset of the keys
\* "model", "done", "message", "details", "embedding", "embeddings". A key
\* read as a nested object holds an object, null, a string or a list; an
\* embedding key is there or not (has) and holds a vector, named by its
\* text, or a list of vectors.
Payloads ==
    [model : {"absent", "llama3"},
     done : {"absent", "true"},
     message : {"absent", "object", "null", "string", "list"},
     details : {"absent", "object", "null", "string", "list"},
     embedding : {[has |-> FALSE, val |-> ""]}
                   \cup {[has |-> TRUE, val |-> v] : v \in {"[0.1]", "[0.2]"}},
     embeddings : {[has |-> FALSE, val |-> <<>>], [has |-> TRUE, val |-> <<>>]}
                    \cup {[has |-> TRUE, val |-> <<v>>] : v \in {"[0.1]", "[0.2]"}}]

\* The key from_dict passes to the from_dict of a nested class
\* (lines 98-99, 183-184, 217-218, 245-246), "" when it has none.
NestedKey(cls) ==
    CASE cls = "ChatResponse" -> "message"
      [] cls \in {"OllamaModel", "RunningModel", "ModelInfo"} -> "details"
      [] OTHER -> ""

\* The kind of the value under the nested key of cls.
NestedValue(cls, data) ==
    CASE NestedKey(cls) = "message" -> data.message
      [] NestedKey(cls) = "details" -> data.details
      [] OTHER -> "absent"

\* What from_dict raises, "none" when it returns: `if "message" in data:
\* Message.from_dict(data["message"])` calls .get on the value, whatever it
\* is; None, a str and a list have no .get.
FromDictRaised(cls, data) ==
    IF NestedValue(cls, data) \in {"null", "string", "list"}
    THEN "AttributeError"
    ELSE "none"

\* EmbedResponse.from_dict with `if "embedding" in data:` as its test: the
\* singular key wins whenever it is there.
EmbedResponseFromDictSingularFirst(data) ==
    IF data.embedding.has
    THEN <<data.embedding.val>>
    ELSE IF data.embeddings.has THEN data.embeddings.val ELSE <<>>

\* EmbedResponse.from_dict, the embeddings field (lines 129-131):
\* data.get("embeddings", []), replaced by [data["embedding"]] when it is
\* empty and the singular key is there.
EmbedResponseFromDict(data) ==
    LET embeddings == IF data.embeddings.has THEN data.embeddings.val ELSE <<>>
    IN IF embeddings = <<>> /\ data.embedding.has
       THEN <<data.embedding.val>>
       ELSE embeddings

\* The object from_dict returns: the fields read with data.get(key, default)
\* and the nested object, None without its key.
FromDictValue(cls, data) ==
    [model |-> IF cls \in {"GenerateResponse", "ChatResponse", "EmbedResponse", "RunningModel"}
               THEN IF data.model = "absent" THEN "" ELSE data.model
               ELSE "no field",
     done |-> IF cls \in {"GenerateResponse", "ChatResponse"}
              THEN IF data.done = "absent" THEN "False" ELSE "True"
              ELSE "no field",
     nested |-> IF NestedKey(cls) = "" THEN "no field"
                ELSE IF NestedValue(cls, data) = "object" THEN "object" ELSE "None",
     embeddings |-> IF cls = "EmbedResponse" THEN EmbedResponseFromDict(data) ELSE <<>>]

\* No from_dict call yet.
NoDec ==
    [cls |-> "", data |-> [model |-> "absent", done |-> "absent", message |-> "absent",
                           details |-> "absent",
                           embedding |-> [has |-> FALSE, val |-> ""],
                           embeddings |-> [has |-> FALSE, val |-> <<>>]],
     raised |-> "none",
     value |-> [model |-> "", done |-> "", nested |-> "", embeddings |-> <<>>]]

\* cls.from_dict(data) on a decoded JSON object.
FromDictCall(cls, data) ==
    /\ dec.cls = ""
    /\ dec' = [cls |-> cls, data |-> data,
               raised |-> FromDictRaised(cls, data),
               value |-> IF FromDictRaised(cls, data) = "none"
                         THEN FromDictValue(cls, data)
                         ELSE NoDec.value]
    /\ UNCHANGED <<rq, co, mf>>
    /\ UNCHANGED streamVars
    /\ UNCHANGED chatVars

(* ------------------------------------------------------------------ *)
(* Modelfile: str(Modelfile) and parse_modelfile (src/modelfile.py)     *)
(* ------------------------------------------------------------------ *)
\* Python values. A str is the sequence of its lines ("a\nb" is <<"a", "b">>,
\* "a\nb\n" is <<"a", "b", "">>); a number or a bool is its literal; a list
\* of strs is the sequence of its items.
PyNone == [t |-> "None", v |-> <<>>]
PyStr(lines) == [t |-> "str", v |-> lines]
PyVal(t, lit) == [t |-> t, v |-> <<lit>>]

\* bool(value) of `if self.system:` and `if system:`.
Truthy(value) ==
    CASE value.t = "None" -> FALSE
      [] value.t = "str" -> value.v # <<"">>
      [] value.t = "list" -> value.v # <<>>
      [] OTHER -> TRUE

\* A Modelfile text is a sequence of lines and a line a sequence of words
\* separated by one space. A word is bare, in double quotes, or the
\* triple quote that opens and closes a multi-line value.
Tok(w) == [q |-> "none", w |-> w]
Quoted(w) == [q |-> "dq", w |-> w]
TripleQuote == [q |-> "tq", w |-> ""]

\* str.lower() on the literals of bool.
Lower(lit) ==
    CASE lit = "True" -> "true"
      [] lit = "False" -> "false"
      [] OTHER -> lit

\* str.isdigit() and the float test `replace(".", "", 1).isdigit()` on the
\* bare words of the model.
IsDigit(w) == w \in {"7"}
IsFloatText(w) == w \in {"7", "0.7"}

\* Modelfile._format_value (lines 155-165): the lines of the formatted
\* value. A str with a newline goes between two triple-quote lines.
FormatValue(value) ==
    CASE value.t = "bool" -> << <<Tok(Lower(value.v[1]))>> >>
      [] value.t \in {"int", "float"} -> << <<Tok(value.v[1])>> >>
      [] value.t = "str" /\ Len(value.v) > 1 ->
            << <<TripleQuote>> >> \o [i \in 1..Len(value.v) |-> <<Tok(value.v[i])>>]
                \o << <<TripleQuote>> >>
      [] OTHER -> << <<Quoted(value.v[1])>> >>

\* f"{INSTRUCTION} {formatted}": the first line of the value follows the
\* words of the instruction, the other lines come after.
Directive(words, formatted) == << words \o formatted[1] >> \o Tail(formatted)

RECURSIVE Flat(_)
Flat(ss) == IF ss = <<>> THEN <<>> ELSE ss[1] \o Flat(Tail(ss))

\* Modelfile.__str__ (lines 174-207). A license given as a list is joined
\* with "\n" (197-200): its items become the lines of one text.
Str(d) ==
    << <<Tok("FROM"), Tok(d.from_value.v[1])>> >>
    \o Flat([i \in 1..Len(d.parameters) |->
               Directive(<<Tok("PARAMETER"), Tok(d.parameters[i].name)>>,
                         FormatValue(d.parameters[i].value))])
    \o (IF Truthy(d.template)
        THEN Directive(<<Tok("TEMPLATE")>>, FormatValue(d.template)) ELSE <<>>)
    \o (IF Truthy(d.system)
        THEN Directive(<<Tok("SYSTEM")>>, FormatValue(d.system)) ELSE <<>>)
    \o [i \in 1..Len(d.adapters) |-> <<Tok("ADAPTER"), Tok(d.adapters[i].v[1])>>]
    \o (IF Truthy(d.license)
        THEN Directive(<<Tok("LICENSE")>>, FormatValue(PyStr(d.license.v))) ELSE <<>>)
    \o Flat([i \in 1..Len(d.messages) |->
               Directive(<<Tok("MESSAGE"), Tok(d.messages[i].role)>>,
                         FormatValue(d.messages[i].content))])

\* A Modelfile object without any instruction.
EmptyModelfile ==
    [from_value |-> PyNone, parameters |-> <<>>, system |-> PyNone,
     template |-> PyNone, license |-> PyNone, adapters |-> <<>>, messages |-> <<>>]

\* `not line` after strip().
IsBlank(line) == Len(line) = 0 \/ line = <<Tok("")>>

\* `'"""' in args`.
HasTriple(words) == \E i \in 1..Len(words) : words[i].q = "tq"

\* `if s.startswith('"') and s.endswith('"'): s = s[1:-1]` on one word: a
\* quoted word loses its quotes, and the triple quote keeps its middle one.
Unquote(word) ==
    CASE word.q = "dq" -> word.w
      [] word.q = "tq" -> "\""
      [] OTHER -> word.w

\* The inner loop of lines 269-280: lines are collected up to the line
\* holding the closing triple quote, and the text of that line before the
\* quote (the empty text) is collected too. at is the index the loop stops
\* at. A line of a multi-line value is one bare word.
RECURSIVE CollectValue(_, _, _)
CollectValue(lines, j, got) ==
    IF j > Len(lines) THEN [value |-> got, at |-> j]
    ELSE IF HasTriple(lines[j]) THEN [value |-> Append(got, ""), at |-> j]
    ELSE CollectValue(lines, j + 1, Append(got, IF Len(lines[j]) = 0 THEN "" ELSE lines[j][1].w))

\* Lines 261-285: the value of an instruction, and the index of its last
\* line. The opening triple quote ends its line, so nothing of that line
\* belongs to the value.
InstructionValue(lines, i, args) ==
    IF HasTriple(args)
    THEN [value |-> PyStr(CollectValue(lines, i + 1, <<>>).value),
          at |-> CollectValue(lines, i + 1, <<>>).at]
    ELSE [value |-> PyStr(<<IF Len(args) = 1 THEN Unquote(args[1]) ELSE "">>),
          at |-> i]

\* Lines 295-307: the typed value of the second word of a PARAMETER.
ParameterValue(word) ==
    IF word.q # "none" THEN PyStr(<<Unquote(word)>>)
    ELSE IF Lower(word.w) = "true" THEN PyVal("bool", "True")
    ELSE IF Lower(word.w) = "false" THEN PyVal("bool", "False")
    ELSE IF IsDigit(word.w) THEN PyVal("int", word.w)
    ELSE IF IsFloatText(word.w) THEN PyVal("float", word.w)
    ELSE PyStr(<<word.w>>)

\* parameters[param_name] = value on a dict kept as its items in order.
DictSet(items, name, value) ==
    IF \E i \in 1..Len(items) : items[i].name = name
    THEN [i \in 1..Len(items) |->
            IF items[i].name = name THEN [name |-> name, value |-> value] ELSE items[i]]
    ELSE Append(items, [name |-> name, value |-> value])

\* Lines 288-323: the instruction is stored.
Process(acc, instruction, args, value) ==
    CASE instruction = "FROM" -> [acc EXCEPT !.from_value = value]
      [] instruction = "PARAMETER" ->
            IF Len(args) >= 2
            THEN [acc EXCEPT !.parameters = DictSet(@, args[1].w, ParameterValue(args[2]))]
            ELSE acc
      [] instruction = "SYSTEM" -> [acc EXCEPT !.system = value]
      [] instruction = "TEMPLATE" -> [acc EXCEPT !.template = value]
      [] instruction = "LICENSE" -> [acc EXCEPT !.license = value]
      [] instruction = "ADAPTER" -> [acc EXCEPT !.adapters = Append(@, value)]
      [] instruction = "MESSAGE" ->
            IF Len(args) >= 2
            THEN [acc EXCEPT !.messages =
                      Append(@, [role |-> args[1].w,
                                 content |-> PyStr(<<Unquote(args[2])>>)])]
            ELSE acc
      [] OTHER -> acc

\* The loop of lines 243-325 from line i on.
RECURSIVE ParseLines(_, _, _)
ParseLines(lines, i, acc) ==
    IF i > Len(lines) THEN acc
    ELSE IF IsBlank(lines[i]) \/ Len(lines[i]) < 2 THEN ParseLines(lines, i + 1, acc)
    ELSE LET args == Tail(lines[i])
             iv == InstructionValue(lines, i, args)
         IN ParseLines(lines, iv.at + 1, Process(acc, lines[i][1].w, args, iv.value))

\* parse_modelfile (lines 233-344): ValueError without a FROM, else the
\* object built with the setters, an empty value being left as None.
ParseModelfile(lines) ==
    LET acc == ParseLines(lines, 1, EmptyModelfile)
    IN IF ~Truthy(acc.from_value)
       THEN [raised |-> "ValueError", value |-> EmptyModelfile]
       ELSE [raised |-> "none",
             value |-> [acc EXCEPT !.system = IF Truthy(@) THEN @ ELSE PyNone,
                                   !.template = IF Truthy(@) THEN @ ELSE PyNone,
                                   !.license = IF Truthy(@) THEN @ ELSE PyNone]]

\* The Modelfile objects of the model: one of each instruction at most, with
\* one-line and multi-line texts and each type of parameter value.
MfTexts == {PyStr(l) : l \in SeqsUpTo({"a"}, MaxValueLines) \ {<<>>}}
Modelfiles ==
    [from_value : {PyStr(<<"llama3">>)},
     parameters : {<<>>} \cup {<<[name |-> "p", value |-> x]>> :
                       x \in {PyVal("int", "7"), PyVal("int", "-1"), PyVal("float", "0.7"),
                              PyVal("bool", "True")} \cup MfTexts},
     system : {PyNone} \cup MfTexts,
     template : {PyNone} \cup MfTexts,
     license : {PyNone, [t |-> "list", v |-> <<"a", "a">>]} \cup MfTexts,
     adapters : {<<>>, <<PyStr(<<"ad">>)>>},
     messages : {<<>>} \cup {<<[role |-> "user", content |-> x]>> : x \in MfTexts}]

\* No Modelfile object yet.
NoMf ==
    [pc |-> "none", d |-> EmptyModelfile, text |-> <<>>, raised |-> "none",
     back |-> EmptyModelfile]

\* The caller builds a Modelfile with the constructor and the setters
\* (lines 24-143).
MfBuild(d) ==
    /\ mf.pc = "none"
    /\ mf' = [mf EXCEPT !.pc = "built", !.d = d]
    /\ UNCHANGED <<rq, co, dec>>
    /\ UNCHANGED streamVars
    /\ UNCHANGED chatVars

\* text = str(d)
MfStr ==
    /\ mf.pc = "built"
    /\ mf' = [mf EXCEPT !.pc = "written", !.text = Str(mf.d)]
    /\ UNCHANGED <<rq, co, dec>>
    /\ UNCHANGED streamVars
    /\ UNCHANGED chatVars

\* back = parse_modelfile(text)
MfParse ==
    /\ mf.pc = "written"
    /\ mf' = [mf EXCEPT !.pc = "parsed",
                        !.raised = ParseModelfile(mf.text).raised,
                        !.back = ParseModelfile(mf.text).value]
    /\ UNCHANGED <<rq, co, dec>>
    /\ UNCHANGED streamVars
    /\ UNCHANGED chatVars

(* ------------------------------------------------------------------ *)
(* The connection scope of a cooperative call                           *)
(* ------------------------------------------------------------------ *)
\* No cooperative call yet. open counts the AsyncClient scopes entered and
\* not left; exit is the way the `async with` block was left; result is
\* what the caller of the coroutine gets.
NoCo ==
    [pc |-> "idle", op |-> "", stream |-> FALSE, readable |-> TRUE, open |-> 0,
     status |-> 0, text |-> "", exit |-> "", result |-> ""]

\* An `async with` whose client is closed by a statement after the block
\* instead of by __aexit__: only a block left at its end or by return
\* closes it.
AsyncWithExitOnReturnOnly(open, exit) ==
    IF exit = "return" THEN open - 1 ELSE open

\* `async with httpx.AsyncClient(...) as client:` (lines 183, 1247): leaving
\* the block runs __aexit__, which closes the client, whether the block
\* returns, raises or is cancelled at an await.
AsyncWithExit(open, exit) == open - 1

\* The call runs up to its first suspension: the scope is entered and the
\* request is awaited (185-193, 1250). apush_blob opens the file first
\* (1248): when that fails the block is left by the exception and the
\* handler of 1257 returns a BlobStatus without any await.
CoEnter(o, stream, readable) ==
    /\ co.pc # "awaiting"
    /\ o = "apush_blob" => ~stream
    /\ o = "_async_request" => readable
    /\ co' = IF o = "apush_blob" /\ ~readable
             THEN [NoCo EXCEPT !.pc = "done", !.op = o, !.readable = FALSE,
                               !.open = AsyncWithExit(co.open + 1, "raise"),
                               !.exit = "raise", !.result = "BlobStatus(False)"]
             ELSE [NoCo EXCEPT !.pc = "awaiting", !.op = o, !.stream = stream,
                               !.open = co.open + 1]
    /\ UNCHANGED <<rq, dec, mf>>
    /\ UNCHANGED streamVars
    /\ UNCHANGED chatVars

\* Once the awaited request is over: how the block is left, by an exception
\* (no response, raise_for_status(), a body that does not parse) or by a
\* return or its end, and what the caller gets: the value or the taxonomy
\* error of _async_request, the BlobStatus of apush_blob.
CoOutcome(o, resp, stream) ==
    IF o = "apush_blob"
    THEN IF ApushBlob(TRUE, resp).success
         THEN [exit |-> "return", result |-> "BlobStatus(True)"]
         ELSE [exit |-> "raise", result |-> "BlobStatus(False)"]
    ELSE IF AsyncRequest(resp, stream).raised = "none"
    THEN [exit |-> "return", result |-> "value"]
    ELSE [exit |-> "raise", result |-> AsyncRequest(resp, stream).raised]

\* The awaited request is over and the call runs to its end.
CoResume(resp) ==
    /\ co.pc = "awaiting"
    /\ co' = [co EXCEPT !.pc = "done", !.status = resp.status, !.text = resp.text,
                        !.exit = CoOutcome(co.op, resp, co.stream).exit,
                        !.open = AsyncWithExit(co.open, CoOutcome(co.op, resp, co.stream).exit),
                        !.result = CoOutcome(co.op, resp, co.stream).result]
    /\ UNCHANGED <<rq, dec, mf>>
    /\ UNCHANGED streamVars
    /\ UNCHANGED chatVars

\* The task is cancelled while the request is awaited: CancelledError is
\* raised at the await; it is no Exception, so no handler of the call takes
\* it (225-241, 1257) and it leaves the block and the call.
CoCancel ==
    /\ co.pc = "awaiting"
    /\ co' = [co EXCEPT !.pc = "done", !.exit = "cancelled",
                        !.open = AsyncWithExit(co.open, "cancelled"),
                        !.result = "CancelledError"]
    /\ UNCHANGED <<rq, dec, mf>>
    /\ UNCHANGED streamVars
    /\ UNCHANGED chatVars

(* ------------------------------------------------------------------ *)
(* Specifications                                                       *)
(* ------------------------------------------------------------------ *)
InitChatVars ==
    /\ lists = [h \in ListIds |-> UnbornList]
    /\ dicts = <<>>
    /\ conv = [k \in {} |-> <<>>]
    /\ calls = [c \in CallIds |-> IdleCall]
    /\ busy = 0
    /\ accum = [k \in {} |-> [msgs |-> <<>>, by |-> 0]]
    /\ op = NoOp
    /\ nops = 0
    /\ rq = NoRq
    /\ co = NoCo
    /\ dec = NoDec
    /\ mf = NoMf

InitChat ==
    /\ InitChatVars
    /\ handler = "none"
    /\ body = <<>>
    /\ sp = NewGen
    /\ asp = NewGen

\* The caller's own steps.
CallerStep ==
    \/ \E h \in ListIds, a \in Addrs : NewList(h, a)
    \/ \E h \in ListIds, t \in UserContents : AppendUser(h, t)
    \/ \E h \in ListIds : FreeList(h)

\* Buffered chats (stream=False), reads and clears.
NextChat ==
    \/ CallerStep
    \/ \E c \in CallIds, h \in ListIds, m \in Models, sys \in BOOLEAN, img \in BOOLEAN :
          ChatCall(c, h, m, sys, img, FALSE)
    \/ \E c \in CallIds, h \in ListIds, m \in Models, sys \in BOOLEAN, img \in BOOLEAN :
          AchatCall(c, h, m, sys, img, FALSE)
    \/ \E c \in CallIds, resp \in Responses : ChatReturn(c, resp)
    \/ \E c \in CallIds, resp \in Responses : AchatReturn(c, resp)
    \/ \E h \in ListIds, m \in Models : Get(m, h)
    \/ \E h \in ListIds, m \in Models : Clear(m, h)

\* Streamed chats (stream=True) and their consumers.
NextChatStream ==
    \/ CallerStep
    \/ \E c \in CallIds, h \in ListIds, m \in Models : ChatCall(c, h, m, FALSE, FALSE, TRUE)
    \/ \E c \in CallIds, h \in ListIds, m \in Models : AchatCall(c, h, m, FALSE, FALSE, TRUE)
    \/ \E c \in CallIds, resp \in Responses : ChatReturn(c, resp)
    \/ \E c \in CallIds, resp \in Responses : AchatReturn(c, resp)
    \/ \E c \in CallIds, line \in ChatLines \cup {Eof} : ChatNext(c, line)
    \/ \E c \in CallIds, line \in ChatLines \cup {Eof} : AchatNext(c, line)
    \/ \E c \in CallIds : Close(c)

SpecChat == InitChat /\ [][NextChat]_vars

SpecChatStream == InitChat /\ [][NextChatStream]_vars

InitStream ==
    /\ InitChatVars
    /\ handler = "none"
    /\ body \in SeqsUpTo(StreamLines, MaxLines)
    /\ sp = NewGen
    /\ asp = NewGen

NextStream == SpNext \/ AspNext

SpecStream == InitStream /\ [][NextStream]_vars

\* The decoders with an observer registered or not, under a consumer that
\* may iterate again over the sequence an operation returned.
InitObserver ==
    /\ InitChatVars
    /\ handler \in Handlers
    /\ body \in SeqsUpTo(StreamLines, MaxLines)
    /\ \E o \in StreamOps :
          /\ sp = [NewGen EXCEPT !.from = o]
          /\ asp = [NewGen EXCEPT !.from = o]

NextObserver == SpNext \/ AspNext \/ SpIter \/ AspIter

SpecObserver == InitObserver /\ [][NextObserver]_vars

\* The operations on the request core, one call after the other.
NextRequest ==
    \/ \E name \in RaisingOps, async \in BOOLEAN, resp \in RqResponses, stream \in BOOLEAN :
          Call(name, async, resp, stream)
    \/ \E name \in BoolOps, async \in BOOLEAN, resp \in RqResponses :
          BoolCall(name, async, resp)
    \/ \E async \in BOOLEAN, readable \in BOOLEAN, resp \in RqResponses :
          PushBlobCall(async, readable, resp)
    \/ \E async \in BOOLEAN, method \in Methods, resp \in RqResponses, stream \in BOOLEAN :
          CoreCall(async, method, resp, stream)

SpecRequest == InitChat /\ [][NextRequest]_vars

\* Cooperative calls, one after the other, each one resumed or cancelled
\* at its await.
NextCoop ==
    \/ \E o \in {"_async_request", "apush_blob"}, stream \in BOOLEAN, readable \in BOOLEAN : CoEnter(o, stream, readable)
    \/ \E resp \in RqResponses : CoResume(resp)
    \/ CoCancel

SpecCoop == InitChat /\ [][NextCoop]_vars

\* from_dict of one mapping on one payload.
NextDecode == \E cls \in Mappings, data \in Payloads : FromDictCall(cls, data)

SpecDecode == InitChat /\ [][NextDecode]_vars

\* A Modelfile is built, written with str() and parsed back.
NextModelfile ==
    \/ \E d \in Modelfiles : MfBuild(d)
    \/ MfStr
    \/ MfParse

SpecModelfile == InitChat /\ [][NextModelfile]_vars

(* ------------------------------------------------------------------ *)
(* Properties                                                           *)
(* ------------------------------------------------------------------ *)
\* The position of the first occurrence of v in s.
FirstAt(s, v) == CHOOSE i \in 1..Len(s) : s[i] = v /\ \A j \in 1..(i - 1) : s[j] # v

\* C1: a buffered chat that succeeds on the caller's next turn (the list ends
\* with a user message not sent before), starting from an empty history or
\* from the history of one completed turn, leaves the history longer by
\* exactly that user message and the assistant's reply, in this order: length
\* 2 after the first turn, 4 after the second.
C1_TurnAddsUserThenAssistant ==
    LET hist == conv[op.key]
    IN (/\ op.name = "chat_return" /\ ~op.stream /\ op.ret = "ok" /\ op.appended = 1
        /\ op.turn
        /\ \/ op.pre = 0
           \/ /\ op.pre = 2
              /\ dicts[hist[1]].role = "user"
              /\ dicts[hist[2]].role = "assistant")
          => /\ Len(hist) = op.pre + 2
             /\ dicts[hist[Len(hist) - 1]].role = "user"
             /\ dicts[hist[Len(hist)]].role = "assistant"

\* C2: by the time chat / achat has its request on the wire, the entry of
\* the key holds what it held before, in place, followed by the supplied
\* messages that were not equal to any message already there, each once, in
\* the order they were supplied; nothing else is appended.
C2_MergeBeforeDispatch ==
    [][op'.name \in {"chat", "achat"} =>
          LET k == op'.key
              sup == calls'[op'.call].req
              pre == Entry(conv, k)
              post == Entry(conv', k)
              app == SubSeq(post, Len(pre) + 1, Len(post))
              preV == Vals(pre, dicts')
              appV == Vals(app, dicts')
          IN /\ k \in DOMAIN conv'
             /\ calls'[op'.call].pc = "dispatched"
             /\ Len(pre) <= Len(post)
             /\ SubSeq(post, 1, Len(pre)) = pre
             /\ \A i \in 1..Len(sup) :
                   (\E j \in 1..Len(appV) : appV[j] = sup[i])
                       <=> ~(\E j \in 1..Len(preV) : preV[j] = sup[i])
             /\ \A j \in 1..Len(appV) : \E i \in 1..Len(sup) : sup[i] = appV[j]
             /\ \A j1, j2 \in 1..Len(appV) :
                   j1 < j2 => /\ appV[j1] # appV[j2]
                              /\ FirstAt(sup, appV[j1]) < FirstAt(sup, appV[j2])
    ]_vars

\* A call whose list holds a message the history has already (skipped) and
\* one it has not (appended).
C2_Witness ==
    /\ op.name \in {"chat", "achat"}
    /\ op.pre > 0
    /\ Len(conv[op.key]) > op.pre
    /\ Len(calls[op.call].req) > Len(conv[op.key]) - op.pre

\* C3: in a streamed exchange no assistant message is stored before a
\* terminal frame was seen, at most one is stored per exchange, and once the
\* stream with one terminal frame carrying a message is consumed exactly one
\* is stored.
C3_OneAssistantPerStream ==
    /\ \A c \in CallIds :
          calls[c].pc = "gen" =>
              /\ calls[c].seen = 0 => calls[c].appended = 0
              /\ calls[c].appended <= 1
    /\ op.name \in {"next", "anext", "close"} =>
          /\ op.seen = 0 => op.appended = 0
          /\ op.appended <= 1
          /\ (op.name # "close" /\ op.fin /\ op.seen = 1 /\ op.seenMsg = 1) => op.appended = 1

\* C4: while no terminal frame has been observed, no step of a streamed
\* exchange after its merge (the request returning or raising, a frame
\* consumed, the end of the stream, the consumer giving up) changes the
\* store or any stored message.
C4_NoTerminalFrameNoStore ==
    [][(/\ op'.stream
        /\ op'.name \in {"chat_return", "achat_return", "next", "anext", "close"}
        /\ op'.seen = 0)
          => conv' = conv /\ dicts' = dicts]_vars

\* A stream consumed to its end in which frames with content arrived and
\* none was terminal.
C4_Witness ==
    /\ op.name \in {"next", "anext"}
    /\ op.fin
    /\ op.seen = 0
    /\ op.acc # ""

\* C5: the assistant message a consumed stream stores has as content the
\* concatenation of the content of all frames of the exchange.
C5_StoredIsWholeReply ==
    (op.name \in {"next", "anext"} /\ op.fin /\ op.appended = 1) => op.last = op.acc

\* C6: a call with a list object extends the entry of its model and the
\* list's identity, and that entry was created by a call with this very
\* object: a distinct list object of the same content has another entry.
C6_DistinctListsDistinctEntries ==
    op.name \in {"chat", "achat"} =>
        /\ op.key = ConvId(op.key[1], lists[op.list].addr)
        /\ Vals(lists[accum[op.key].by].items, dicts) = Vals(lists[op.list].items, dicts)
               => accum[op.key].by = op.list

\* The messages accumulated under a key since it was last cleared.
Accumulated(a, k) == IF k \in DOMAIN a THEN a[k].msgs ELSE <<>>

\* C7: a read returns the messages accumulated under the key (none for a key
\* never used) and changes nothing; a clear returns True exactly when the
\* key has an entry, then empties that entry only, and otherwise changes
\* nothing; a read right after a clear of the same key returns no message.
C7_ReadAndClear ==
    [][/\ op'.name = "get" =>
             /\ op'.hist = Accumulated(accum', op'.key)
             /\ (op'.key \notin DOMAIN conv) => op'.hist = <<>>
             /\ conv' = conv /\ dicts' = dicts
       /\ op'.name = "clear" =>
             /\ op'.ret = "True" <=> op'.key \in DOMAIN conv
             /\ op'.ret = "False" <=> op'.key \notin DOMAIN conv
             /\ op'.ret = "True" =>
                   /\ DOMAIN conv' = DOMAIN conv
                   /\ conv'[op'.key] = <<>>
                   /\ \A k \in DOMAIN conv : k # op'.key => conv'[k] = conv[k]
             /\ op'.ret = "False" => conv' = conv
             /\ dicts' = dicts
       /\ (op.name = "clear" /\ op'.name = "get" /\ op'.key = op.key) => op'.hist = <<>>
    ]_vars

\* A clear that emptied the entry of an exchange the assistant answered.
C7_Witness ==
    /\ op.name = "clear"
    /\ op.ret = "True"
    /\ conv[op.key] = <<>>
    /\ \E i \in 1..Len(dicts) : dicts[i].role = "assistant"

\* C8: an operation of the client on one key leaves the history of every
\* other key as it was, message for message.
C8_OtherKeysUntouched ==
    [][op'.name \in {"chat", "achat", "chat_return", "achat_return", "get", "clear"} =>
          \A k \in DOMAIN conv :
              k # op'.key => /\ k \in DOMAIN conv'
                             /\ Vals(conv'[k], dicts') = Vals(conv[k], dicts)
    ]_vars

\* The objects of the lines json.loads accepts, in line order.
Decoded(lines) ==
    LET ok == SelectSeq(lines, LAMBDA l : l # "" /\ IsJson(l))
    IN [i \in 1..Len(ok) |-> JsonLoads(ok[i])]

Malformed(lines) == \E i \in 1..Len(lines) : lines[i] # "" /\ ~IsJson(lines[i])

\* C9: on a stream with a malformed line, both decoders have at every moment
\* yielded the objects of the well-formed lines read so far, in order; they
\* end only when every line was read, so the well-formed lines after the
\* malformed one are yielded too.
C9_MalformedLineSkipped ==
    Malformed(body) =>
        /\ sp.out = Decoded(SubSeq(body, 1, sp.pos))
        /\ asp.out = Decoded(SubSeq(body, 1, asp.pos))
        /\ sp.st = "finished" => sp.pos = Len(body)
        /\ asp.st = "finished" => asp.pos = Len(body)
        /\ (body = <<TxtA1, TxtBad, TxtA2>> /\ sp.st = "finished")
               => sp.out = <<JsonObj("1", "absent", "absent", "absent", "absent"),
                             JsonObj("2", "absent", "absent", "absent", "absent")>>

\* Both decoders consumed {"a":1}, a malformed line, {"a":2}.
C9_Witness ==
    /\ body = <<TxtA1, TxtBad, TxtA2>>
    /\ sp.st = "finished"
    /\ asp.st = "finished"
    /\ Len(sp.out) = 2

\* C10: on a stream of well-formed and empty lines only, each decoder, once
\* fully consumed, has yielded one object per non-empty line, in line order,
\* each equal to what decoding that line on its own gives; both decoders
\* yield the same sequence.
C10_OneObjectPerLine ==
    ~Malformed(body) =>
        LET full == SelectSeq(body, LAMBDA l : l # "")
        IN /\ sp.st = "finished" =>
                 /\ Len(sp.out) = Len(full)
                 /\ \A i \in 1..Len(full) : sp.out[i] = JsonLoads(full[i])
           /\ asp.st = "finished" =>
                 /\ Len(asp.out) = Len(full)
                 /\ \A i \in 1..Len(full) : asp.out[i] = JsonLoads(full[i])
           /\ (sp.st = "finished" /\ asp.st = "finished") => sp.out = asp.out

\* Both decoders consumed a stream with an empty line between two objects.
C10_Witness ==
    /\ ~Malformed(body)
    /\ Len(body) = 3
    /\ body[2] = ""
    /\ body[1] # "" /\ body[3] # ""
    /\ sp.st = "finished"
    /\ asp.st = "finished"
    /\ Len(asp.out) = 2

\* The observer call and the yield of each object, in turn.
Interleaved(objs) ==
    [i \in 1..(2 * Len(objs)) |->
        IF i % 2 = 1 THEN <<"observer", objs[(i + 1) \div 2]>>
                     ELSE <<"yield", objs[i \div 2]>>]

C12_SinglePass ==
    \A g \in {sp, asp} : g.pass > 1 => (g.st # "suspended" /\ g.st # "raised")

\* C13: a buffered generate / create / pull / push, blocking or cooperative,
\* answered with a status of 400 or more returns nothing and raises
\* OllamaModelNotFoundError when the status is 404 and OllamaRequestError
\* otherwise, whatever the body; neither class is a subclass of the other.
C13_StatusDecidesError ==
    /\ ~IsA("OllamaModelNotFoundError", "OllamaRequestError")
    /\ ~IsA("OllamaRequestError", "OllamaModelNotFoundError")
    /\ (rq.op \in RaisingOps /\ ~rq.stream) =>
          /\ rq.raised = "OllamaModelNotFoundError" <=> rq.status = 404
          /\ rq.status >= 400 =>
                /\ rq.ret = ""
                /\ rq.value = EmptyObj
                /\ rq.raised = IF rq.status = 404 THEN "OllamaModelNotFoundError"
                                                  ELSE "OllamaRequestError"

\* A cooperative buffered call answered 404 with an error body.
C13_Witness ==
    /\ rq.op \in RaisingOps
    /\ rq.async
    /\ ~rq.stream
    /\ rq.status = 404
    /\ rq.text = TxtErr
    /\ rq.raised = "OllamaModelNotFoundError"

\* C14: the OllamaRequestError raised for a status of 400 or more other than
\* 404 carries the "error" value of the body when the body is a JSON object
\* with that key, and the raw status text otherwise, in the blocking and in
\* the cooperative path.
C14_ErrorFieldCarried ==
    (rq.op \in RaisingOps /\ rq.status >= 400 /\ rq.status # 404) =>
        /\ rq.raised = "OllamaRequestError"
        /\ rq.detail = IF IsJson(rq.text) /\ JsonLoads(rq.text).error # "absent"
                       THEN JsonLoads(rq.text).error
                       ELSE RawStatus(rq.status)

\* C15: a buffered call answered with status 200 and a body that is not JSON
\* raises OllamaResponseError, a class apart from OllamaRequestError,
\* OllamaConnectionError and the base OllamaError.
C15_DecodeFailureKind ==
    /\ \A k \in {"OllamaRequestError", "OllamaConnectionError", "OllamaError"} :
          ~IsA(k, "OllamaResponseError")
    /\ (rq.op \in RaisingOps /\ ~rq.stream /\ rq.status = 200 /\ ~IsJson(rq.text)) =>
          rq.raised = "OllamaResponseError"

\* C16: a call with stream=True raises nothing itself, whatever the server
\* answers or fails to answer.
C16_StreamCallNeverRaises ==
    (rq.op \in RaisingOps /\ rq.stream) => rq.raised = "none"

\* C17: the error with which an advance of a decoder fails is OllamaError or
\* one of its subclasses.
C17_StreamErrorInTaxonomy ==
    \A g \in {sp, asp} : g.st = "raised" => IsA(g.err, "OllamaError")

C19_BoolFromStatusOnly ==
    rq.op \in BoolOps => (rq.ret = "True" <=> rq.status \in {200, 201, 204})

\* C20: push_blob and apush_blob return a BlobStatus: success exactly when
\* the file was readable and the server answered with a success status, no
\* error with success and an error without; both give the same success for
\* the same file and response.
C20_PushBlobReportsStatus ==
    rq.op = "push_blob" =>
        /\ rq.raised = "none"
        /\ rq.ret = "True" <=> (rq.readable /\ rq.status \in {200, 201, 204})
        /\ rq.ret = "True" => rq.error = "None"
        /\ rq.ret = "False" => rq.error # "None"
        /\ PushBlob(rq.readable, [status |-> rq.status, text |-> rq.text]).success
              = ApushBlob(rq.readable, [status |-> rq.status, text |-> rq.text]).success

\* C21: a cooperative call opens its own connection scope and the scope is
\* closed whenever control is back with the caller: after a return, after a
\* raised error and after a cancellation at the awaited request; only a call
\* suspended at its await holds a scope, and it holds one.
C21_ScopeClosedOnEveryExit ==
    /\ co.pc = "awaiting" => co.open = 1
    /\ co.pc # "awaiting" => co.open = 0

\* A call cancelled at its await is over and holds no scope.
C21_Witness ==
    /\ co.pc = "done"
    /\ co.exit = "cancelled"
    /\ co.open = 0

\* C22: from_dict of every response mapping returns on every JSON object,
\* or raises an error of the client's taxonomy when a field has the wrong
\* type. (A "message" or "details" that is null, a string or a list makes
\* from_dict raise AttributeError.)
C22_FromDictTotalOrTaxonomy ==
    dec.cls # "" => (dec.raised = "none" \/ IsA(dec.raised, "OllamaError"))

\* C23: EmbedResponse.from_dict gives [v] for the singular key "embedding"
\* = v alone and for the plural key "embeddings" = [v]; a non-empty plural
\* key is returned as it is, with or without the singular key.
C23_EmbeddingNormalised ==
    dec.cls = "EmbedResponse" =>
        /\ (dec.data.embedding.has /\ ~dec.data.embeddings.has)
              => dec.value.embeddings = <<dec.data.embedding.val>>
        /\ (dec.data.embeddings.has /\ dec.data.embeddings.val # <<>>)
              => dec.value.embeddings = dec.data.embeddings.val

\* Both keys are there with different vectors and the plural one is kept.
C23_Witness ==
    /\ dec.cls = "EmbedResponse"
    /\ dec.data.embedding = [has |-> TRUE, val |-> "[0.1]"]
    /\ dec.data.embeddings = [has |-> TRUE, val |-> <<"[0.2]">>]
    /\ dec.value.embeddings = <<"[0.2]">>

\* C24: parse_modelfile(str(D)) returns a Modelfile equal to D, field by
\* field, for every directive: one-line and multi-line SYSTEM, TEMPLATE and
\* MESSAGE texts, numeric and boolean parameters. (A multi-line text comes
\* back with a newline added, or as a lone quote in a MESSAGE.)
C24_RoundTrip ==
    mf.pc = "parsed" => (mf.raised = "none" /\ mf.back = mf.d)

\* C25: between two clears the history of a key only grows by appending:
\* the history before any step that is not a clear is a prefix of the history
\* after it, message by message, and no entry leaves the store. (A chat with
\* images rewrites a stored message in place.)
C25_HistoryOnlyGrows ==
    [][op'.name # "clear" =>
          \A k \in DOMAIN conv :
              /\ k \in DOMAIN conv'
              /\ Len(conv[k]) <= Len(conv'[k])
              /\ SubSeq(Vals(conv'[k], dicts'), 1, Len(conv[k])) = Vals(conv[k], dicts)
    ]_vars

\* C27: a step of an achat, whatever other achat is suspended on the same
\* key, loses no append: every entry keeps what it held and the key's
\* history is everything appended to it since its clear; the call's merge
\* leaves each of its messages in the history, and a completed call with a
\* reply appends exactly that one assistant message; the other calls in
\* flight are not touched.
C27_NoLostAppend ==
    [][op'.name \in {"achat", "achat_return"} =>
          LET k == op'.key
          IN /\ \A j \in DOMAIN conv :
                   /\ j \in DOMAIN conv'
                   /\ SubSeq(conv'[j], 1, Len(conv[j])) = conv[j]
                   /\ conv'[j] = accum'[j].msgs
             /\ \A c \in CallIds : c # op'.call => calls'[c] = calls[c]
             /\ op'.name = "achat" =>
                   \A i \in 1..Len(calls'[op'.call].req) :
                       InVals(calls'[op'.call].req[i], conv'[k], dicts')
             /\ (op'.name = "achat_return" /\ op'.appended = 1) =>
                   /\ Len(conv'[k]) = Len(conv[k]) + 1
                   /\ dicts'[conv'[k][Len(conv'[k])]].role = "assistant"
             /\ (op'.name = "achat_return" /\ op'.appended = 0) => conv' = conv
    ]_vars

\* Two achat calls were suspended on one key at once: one has completed and
\* stored its reply while the other, which has merged a message of its own,
\* is still suspended.
C27_Witness ==
    /\ op.name = "achat_return"
    /\ op.appended = 1
    /\ \E c \in CallIds :
          /\ calls[c].pc = "dispatched"
          /\ calls[c].kind = "achat"
          /\ calls[c].key = op.key
          /\ Len(calls[c].req) > 0
          /\ Len(conv[op.key]) >= 2

\* C28: a buffered chat whose dispatch fails leaves the store as the merge
\* left it (the merged messages stay, no assistant message is appended), and
\* a retry with the same handle and messages appends nothing.
C28_FailureKeepsMergeRetryAddsNothing ==
    [][/\ (op'.name \in {"chat_return", "achat_return"} /\ ~op'.stream /\ op'.ret # "ok") =>
             /\ conv' = conv
             /\ dicts' = dicts
             /\ op'.appended = 0
             /\ (op.name \in {"chat", "achat"} /\ op.call = op'.call) =>
                    \A i \in 1..Len(calls[op'.call].req) :
                        InVals(calls[op'.call].req[i], conv'[op'.key], dicts')
       /\ (op'.name \in {"chat", "achat"} /\ op'.retry
              /\ \A i \in 1..Len(op.req) : InVals(op.req[i], Entry(conv, op'.key), dicts)) =>
             /\ conv' = conv
             /\ dicts' = dicts
    ]_vars

\* A retry of a failed call whose messages the first attempt had merged.
C28_Witness ==
    /\ op.name \in {"chat", "achat"}
    /\ op.retry
    /\ Len(calls[op.call].req) > 0
    /\ Len(conv[op.key]) = Len(calls[op.call].req)
    /\ op.pre = Len(conv[op.key])

\* C29: chat and achat leave the caller's message lists as they are: the
\* same dicts in the same order, each with the same content, with or
\* without system and images. (With images the caller's last user dict
\* gets an "images" key.)
C29_CallerMessagesUntouched ==
    [][op'.name \in {"chat", "achat", "chat_return", "achat_return"} =>
          \A h \in ListIds :
              /\ lists'[h].items = lists[h].items
              /\ Vals(lists'[h].items, dicts') = Vals(lists[h].items, dicts)
    ]_vars

\* C26: a call of the request core fails exactly when the method is
\* unsupported, no response arrives, the status is 400 or more, or the body
\* of a buffered 200 response does not decode; every failure reaches the
\* caller as one error of the taxonomy, of the kind its cause gives, and
\* nothing else is raised.
C26_CoreFailuresInTaxonomy ==
    rq.op \in {"_request", "_async_request"} =>
        /\ rq.raised # "none" => IsA(rq.raised, "OllamaError")
        /\ rq.raised =
              (IF rq.method \notin SupportedMethods THEN "OllamaError"
               ELSE IF rq.status = 0 THEN "OllamaConnectionError"
               ELSE IF rq.status = 404 THEN "OllamaModelNotFoundError"
               ELSE IF rq.status >= 400 THEN "OllamaRequestError"
               ELSE IF rq.status = 200 /\ ~rq.stream /\ ~IsJson(rq.text) THEN "OllamaError"
               ELSE "none")

\* A call with an unsupported method has raised the base error.
C26_Witness ==
    /\ rq.op = "_async_request"
    /\ rq.method = "put"
    /\ rq.raised = "OllamaError"

\* C30: over one sequence of frames chat(stream=True) and
\* achat(stream=True) deliver the same results in the same order and store
\* the same: a consumed blocking stream has yielded and stored what the
\* cooperative generator yields and stores on its frames, and a consumed
\* cooperative stream what the blocking generator does. (The blocking one
\* holds terminal frames back, yields only the last of them after every
\* other frame and drops it when it has no message.)
C30_StreamVariantsAgree ==
    (op.fin /\ op.name \in {"next", "anext"}) =>
        /\ op.kind = "chat" =>
              /\ op.deliv = AchatDelivers(op.frames)
              /\ op.appended = Len(AchatStores(op.frames))
        /\ op.kind = "achat" =>
              /\ op.deliv = ChatDelivers(op.frames)
              /\ op.appended = Len(ChatStores(op.frames))

====
